---- MODULE Spec2Model ----
(***************************************************************************)
(* Model of TigerGateway (src/tiger_gateway.py): the worker thread that    *)
(* drains the task queue, the connect/close lifecycle, the three broker    *)
(* sub-connections, and the order entry points send_order / cancel_order.  *)
(*                                                                         *)
(* Python strings are modelled as tuples of tokens: "" is << >>, str(n) is *)
(* <<n>>, and concatenation is \o.                                         *)
(***************************************************************************)
EXTENDS Integers, Sequences, FiniteSets, TLC

\* ---------------------------------------------------------------- bounds

\* connect() calls with complete credentials (each starts one Thread)
MaxConnects == 2
\* send_order calls that reach get_new_local_id
MaxOrders == 2
\* push notifications (on_asset_change / on_position_change) delivered
MaxPushes == 1

\* ------------------------------------------------------ program constants

\* self.local_id = 1000000
LOCAL_ID_BASE == 1000000

\* default_name = "TIGER"
gateway_name == "TIGER"

\* "999999": an order id below the counter's base, which get_new_local_id
\* never issues
UNKNOWN_ORDER == LOCAL_ID_BASE - 1

Symbols == {"AAPL", "TSLA"}

\* Exchange.NASDAQ.value
NASDAQ == "NASDAQ"

None == "None"

Threads == 1..MaxConnects

ConnectTasks == {"connect_quote", "connect_trade", "connect_push"}

VARIABLES
    active,         \* self.active
    queue,          \* self.queue: FIFO of [fn, id]; id = enqueue sequence number
    tasks_put,      \* number of queue.put calls so far (history)
    thread,         \* the Thread objects created by connect
    query_thread,   \* self.query_thread: 0 for None, else index into thread
    quote_client,   \* self.quote_client is not None
    trade_client,   \* self.trade_client is not None
    push_client,    \* self.push_client: None / "created" / "connected"
    push_connected, \* self.push_connected
    pushes,         \* the push notifications delivered so far (bounded)
    local_id,       \* self.local_id
    ID_VT2TIGER,    \* self.ID_VT2TIGER
    ID_TIGER2VT,    \* self.ID_TIGER2VT
    contracts,      \* self.contracts: vt_symbol -> descriptor
    attempts,       \* per connect task: how many times the worker ran it (history)
    host,           \* the host thread: [pc, mark]
    last,           \* what the most recent host call did (observation)
    TIGER_AVAILABLE,    \* the module flag: tigeropen was importable
    issued,             \* the ids get_new_local_id returned, in order (history)
    announced,          \* per contract key: number of on_contract calls (history)
    subscribed_symbols, \* self.subscribed_symbols
    quoted,             \* symbols passed to push_client.subscribe_quote (history)
    account,            \* << >>, or the AccountData last passed to on_account
    polled,             \* what the most recent query_account run did (observation)
    caller              \* host threads inside send_order: [pc, symbol, logs, read, id]

vars == <<active, queue, tasks_put, thread, query_thread, quote_client,
          trade_client, push_client, push_connected, pushes, local_id,
          ID_VT2TIGER, ID_TIGER2VT, contracts, attempts, host, last,
          TIGER_AVAILABLE, issued, announced, subscribed_symbols, quoted,
          account, polled, caller>>

\* ------------------------------------------------------------- helpers

EmptyStr == << >>

\* str(n)
Str(n) == <<n>>

NoTask == [fn |-> None, id |-> 0]

\* the record of one order call: its request (req), how the broker answers
\* (result), whether self.trade_client was set, the value returned (ret), the
\* statuses passed to on_order (orders), the number of write_log calls (logs),
\* the number of broker calls (calls), and whether an exception left the call
NoCall == [op |-> None, req |-> EmptyStr, result |-> None, connected |-> FALSE,
           ret |-> EmptyStr, orders |-> << >>, logs |-> 0, calls |-> 0,
           raised |-> FALSE]

\* no query_account run yet
NoPoll == [result |-> None, events |-> 0]

\* the host threads that call send_order at the same time
Callers == {"h1", "h2"}

\* a host thread that is not inside send_order
NoCaller ==
    [pc |-> "out", symbol |-> None, logs |-> 0, read |-> 0, id |-> EmptyStr]

\* a Thread object not yet created
NoThread == [pc |-> "unborn", task |-> NoTask, out |-> None]

EmptyMap == [k \in {} |-> None]

\* d[key] = value
DictSet(d, key, value) ==
    [k \in DOMAIN d \cup {key} |-> IF k = key THEN value ELSE d[k]]

\* dict.get(key): None when the key is absent
DictGet(d, k) == IF k \in DOMAIN d THEN d[k] ELSE None

RECURSIVE PutAll(_, _, _)
\* queue.put((func, args)) for each function name of fns, in order
PutAll(q, n, fns) ==
    IF fns = << >> THEN q
    ELSE PutAll(Append(q, [fn |-> Head(fns), id |-> n + 1]), n + 1, Tail(fns))

\* add_task, as an update of (queue, tasks_put) from a given queue value
add_task(q, fns) ==
    /\ queue' = PutAll(q, tasks_put, fns)
    /\ tasks_put' = tasks_put + Len(fns)

Init ==
    /\ active = FALSE
    /\ queue = << >>
    /\ tasks_put = 0
    /\ thread = [w \in Threads |-> NoThread]
    /\ query_thread = 0
    /\ quote_client = FALSE
    /\ trade_client = FALSE
    /\ push_client = None
    /\ push_connected = FALSE
    /\ pushes = << >>
    /\ local_id = LOCAL_ID_BASE
    /\ ID_VT2TIGER = EmptyMap
    /\ ID_TIGER2VT = EmptyMap
    /\ contracts = EmptyMap
    /\ attempts = [k \in ConnectTasks |-> 0]
    /\ host = [pc |-> "idle", mark |-> 0]
    /\ last = NoCall
    /\ TIGER_AVAILABLE \in BOOLEAN
    /\ issued = << >>
    /\ announced = EmptyMap
    /\ subscribed_symbols = {}
    /\ quoted = {}
    /\ account = << >>
    /\ polled = NoPoll
    /\ caller = [h \in Callers |-> NoCaller]

\* ------------------------------------------------------------ the worker

\* How one run of a task can end.  "ok": its broker calls succeeded; "fail":
\* the broker call raised and the task's own except clause logged it; "raise":
\* an exception left the task function; "hang": the task is blocked in a
\* broker call that never returns; "skip": connect_push found no push
\* configuration.
Outcomes(fn) ==
    CASE fn = "connect_quote" -> {"ok", "fail", "raise", "hang"}
      [] fn = "connect_trade" -> {"ok", "fail", "raise", "hang"}
      [] fn = "connect_push" -> {"ok", "fail", "skip", "raise", "hang"}
      [] fn = "query_contracts" -> {"ok"}
      [] OTHER -> {"ok", "fail", "raise", "hang"}

\* how the task function ends for the worker loop
Ending(out) == IF out \in {"raise", "hang"} THEN out ELSE "return"

\* connect_quote: QuoteClient(...) then the get_trading_calendar test call
connect_quote(out) ==
    quote_client' = IF out \in {"ok", "hang"} THEN TRUE ELSE quote_client

\* connect_trade: TradeClient(...), two add_task calls, then the get_assets test
connect_trade(out) ==
    trade_client' = IF out \in {"ok", "hang"} THEN TRUE ELSE trade_client

\* connect_push: PushClient(...), the callbacks, then push_client.connect(...)
connect_push(out) ==
    push_client' = CASE out = "ok" -> "connected"
                     [] out \in {"fail", "hang"} -> "created"
                     [] OTHER -> push_client

\* AccountData(accountid=..., balance=..., frozen=..., gateway_name=...)
AccountData(balance, frozen) ==
    [accountid |-> "account", balance |-> balance, frozen |-> frozen,
     gateway_name |-> gateway_name]

\* query_account: get_assets returns an asset, whose summary becomes the
\* AccountData passed to on_account; or get_assets raises and the except
\* clause passes an AccountData with balance 0.0 and frozen 0.0
query_account(out) ==
    IF trade_client /\ out = "ok"
    THEN /\ account' = <<AccountData("net_liquidation", "init_margin_req")>>
         /\ polled' = [result |-> "return", events |-> 1]
    ELSE IF trade_client /\ out = "fail"
    THEN /\ account' = <<AccountData("0.0", "0.0")>>
         /\ polled' = [result |-> "raise", events |-> 1]
    ELSE UNCHANGED <<account, polled>>

\* variant: connect_trade enqueues no query
Spawned_nothing(fn, out) == << >>

\* the add_task calls a task makes while it runs
Spawned(fn, out) ==
    IF fn = "connect_trade" /\ out \in {"ok", "hang"}
    THEN <<"query_account", "query_position">>
    ELSE << >>

\* variant: the first failing connection task abandons the tasks queued behind it
Call_abort_on_failure(t, out) ==
    /\ IF t.fn = "connect_quote" THEN connect_quote(out) ELSE UNCHANGED quote_client
    /\ IF t.fn = "connect_trade" THEN connect_trade(out) ELSE UNCHANGED trade_client
    /\ IF t.fn = "connect_push" THEN connect_push(out) ELSE UNCHANGED push_client
    /\ IF t.fn = "query_account"
       THEN query_account(out) ELSE UNCHANGED <<account, polled>>
    /\ IF t.fn \in ConnectTasks /\ out = "fail"
       THEN add_task(<< >>, << >>)
       ELSE add_task(Tail(queue), Spawned(t.fn, out))
    /\ attempts' = IF t.fn \in ConnectTasks
                   THEN [attempts EXCEPT ![t.fn] = @ + 1] ELSE attempts

\* func(*args): what running task t with outcome out does to the gateway
Call(t, out) ==
    /\ IF t.fn = "connect_quote" THEN connect_quote(out) ELSE UNCHANGED quote_client
    /\ IF t.fn = "connect_trade" THEN connect_trade(out) ELSE UNCHANGED trade_client
    /\ IF t.fn = "connect_push" THEN connect_push(out) ELSE UNCHANGED push_client
    /\ IF t.fn = "query_account"
       THEN query_account(out) ELSE UNCHANGED <<account, polled>>
    /\ add_task(Tail(queue), Spawned(t.fn, out))
    /\ attempts' = IF t.fn \in ConnectTasks
                   THEN [attempts EXCEPT ![t.fn] = @ + 1] ELSE attempts

\* run: `while self.active:`
RunCheck(w) ==
    /\ thread[w].pc = "loop"
    /\ thread' = [thread EXCEPT ![w].pc = IF active THEN "get" ELSE "dead"]
    /\ UNCHANGED <<active, queue, tasks_put, query_thread, quote_client,
                   trade_client, push_client, push_connected, pushes, local_id,
                   ID_VT2TIGER, ID_TIGER2VT, contracts, attempts, host, last,
                   TIGER_AVAILABLE, issued, announced, subscribed_symbols,
                   quoted,
                   account, polled, caller>>

\* run: `except Empty: pass`
RunEmpty(w) ==
    /\ thread[w].pc = "get"
    /\ queue = << >>
    /\ thread' = [thread EXCEPT ![w].pc = "loop"]
    /\ UNCHANGED <<active, queue, tasks_put, query_thread, quote_client,
                   trade_client, push_client, push_connected, pushes, local_id,
                   ID_VT2TIGER, ID_TIGER2VT, contracts, attempts, host, last,
                   TIGER_AVAILABLE, issued, announced, subscribed_symbols,
                   quoted,
                   account, polled, caller>>

\* run: `func, args = self.queue.get(timeout=0.1); func(*args)` up to the
\* point where the task returns, raises or blocks
RunTask(w) ==
    /\ thread[w].pc = "get"
    /\ queue # << >>
    /\ \E out \in Outcomes(Head(queue).fn) :
          /\ Call(Head(queue), out)
          /\ thread' = [thread EXCEPT ![w].pc = "exec",
                                      ![w].task = Head(queue),
                                      ![w].out = Ending(out)]
    /\ UNCHANGED <<active, query_thread, push_connected, pushes, local_id,
                   ID_VT2TIGER, ID_TIGER2VT, contracts, host, last,
                   TIGER_AVAILABLE, issued, announced, subscribed_symbols,
                   quoted, caller>>

\* variant: run without its `except Exception` clause
AfterRaise_uncaught == "dead"

\* where the worker goes when a task raised: `except Exception as e: write_log`
AfterRaise == "loop"

\* run: the task returns, or raises into `except Exception`
RunDone(w) ==
    /\ thread[w].pc = "exec"
    /\ thread[w].out # "hang"
    /\ thread' = [thread EXCEPT
                    ![w].pc = IF thread[w].out = "raise" THEN AfterRaise ELSE "loop",
                    ![w].task = NoTask]
    /\ UNCHANGED <<active, queue, tasks_put, query_thread, quote_client,
                   trade_client, push_client, push_connected, pushes, local_id,
                   ID_VT2TIGER, ID_TIGER2VT, contracts, attempts, host, last,
                   TIGER_AVAILABLE, issued, announced, subscribed_symbols,
                   quoted,
                   account, polled, caller>>

run(w) == RunCheck(w) \/ RunEmpty(w) \/ RunTask(w) \/ RunDone(w)

\* ------------------------------------------------------------ lifecycle

Unborn == {w \in Threads : thread[w].pc = "unborn"}

IsAlive(w) == thread[w].pc \notin {"unborn", "dead"}

\* connect(setting) with the SDK importable and complete credentials
connect ==
    /\ TIGER_AVAILABLE
    /\ host.pc # "join"
    /\ Unborn # {}
    /\ LET w == CHOOSE x \in Unborn : \A y \in Unborn : x <= y IN
       /\ active' = TRUE
       /\ thread' = [thread EXCEPT ![w].pc = "loop"]
       /\ query_thread' = w
    /\ add_task(queue, <<"connect_quote", "connect_trade",
                         "connect_push", "query_contracts">>)
    /\ host' = [host EXCEPT !.pc = "idle"]
    /\ UNCHANGED <<quote_client, trade_client, push_client, push_connected,
                   pushes, local_id, ID_VT2TIGER, ID_TIGER2VT, contracts,
                   attempts, last,
                   TIGER_AVAILABLE, issued, announced, subscribed_symbols,
                   quoted,
                   account, polled, caller>>

\* the settings dict handed to connect: all three credentials given, all
\* keys present with "" for a credential, or the "private_key" key absent
Settings == {"complete", "empty", "missing"}

\* connect(setting) on the paths that start nothing: tigeropen cannot be
\* imported (one log), setting["private_key"] raises KeyError, or a
\* credential is empty (one log)
connect_aborts(setting) ==
    /\ host.pc # "join"
    /\ setting = "complete" => ~TIGER_AVAILABLE
    /\ last' = [NoCall EXCEPT
                  !.op = "connect",
                  !.req = <<setting>>,
                  !.logs = IF TIGER_AVAILABLE /\ setting = "missing" THEN 0 ELSE 1,
                  !.raised = TIGER_AVAILABLE /\ setting = "missing"]
    /\ UNCHANGED <<active, queue, tasks_put, thread, query_thread, quote_client,
                   trade_client, push_client, push_connected, pushes, local_id,
                   ID_VT2TIGER, ID_TIGER2VT, contracts, attempts, host,
                   TIGER_AVAILABLE, issued, announced, subscribed_symbols,
                   quoted,
                   account, polled, caller>>

\* variant: close only clears the flag
CloseJoins_never == FALSE

\* whether close waits for the worker: `if self.query_thread and is_alive()`
CloseJoins == query_thread # 0 /\ IsAlive(query_thread)

\* close(), up to `self.query_thread.join()`
close ==
    /\ host.pc # "join"
    /\ active' = FALSE
    /\ host' = [pc |-> IF CloseJoins THEN "join" ELSE "closed",
                mark |-> tasks_put]
    /\ UNCHANGED <<queue, tasks_put, thread, query_thread, quote_client,
                   trade_client, push_client, push_connected, pushes, local_id,
                   ID_VT2TIGER, ID_TIGER2VT, contracts, attempts, last,
                   TIGER_AVAILABLE, issued, announced, subscribed_symbols,
                   quoted,
                   account, polled, caller>>

\* close(): `self.query_thread.join()` returns once that thread has ended
close_join ==
    /\ host.pc = "join"
    /\ ~IsAlive(query_thread)
    /\ host' = [host EXCEPT !.pc = "closed"]
    /\ UNCHANGED <<active, queue, tasks_put, thread, query_thread, quote_client,
                   trade_client, push_client, push_connected, pushes, local_id,
                   ID_VT2TIGER, ID_TIGER2VT, contracts, attempts, last,
                   TIGER_AVAILABLE, issued, announced, subscribed_symbols,
                   quoted,
                   account, polled, caller>>

\* ------------------------------------------------------- push callbacks

\* how the subscribe_asset / subscribe_position / subscribe_order calls of
\* on_push_connected end: they all return, or one of them raises
PushSetups == {"ok", "raise"}

\* on_push_connected: the symbols handed to subscribe_quote, which is reached
\* only when the three calls before it in the try block returned
Replayed(setup) == IF setup = "ok" THEN subscribed_symbols ELSE {}

\* on_push_connected, called by the SDK once push_client.connect succeeded
on_push_connected ==
    /\ push_client = "connected"
    /\ ~push_connected
    /\ push_connected' = TRUE
    /\ \E setup \in PushSetups : quoted' = quoted \cup Replayed(setup)
    /\ UNCHANGED <<active, queue, tasks_put, thread, query_thread, quote_client,
                   trade_client, push_client, pushes, local_id, ID_VT2TIGER,
                   ID_TIGER2VT, contracts, attempts, host, last,
                   TIGER_AVAILABLE, issued, announced, subscribed_symbols,
                   account, polled, caller>>

\* variant: the order push callback updates the registry itself
on_order_change_direct ==
    /\ push_connected
    /\ Len(pushes) < MaxPushes
    /\ pushes' = Append(pushes, "order")
    /\ ID_TIGER2VT' = DictSet(ID_TIGER2VT, Str(1), Str(LOCAL_ID_BASE + 1))
    /\ UNCHANGED <<active, queue, tasks_put, thread, query_thread, quote_client,
                   trade_client, push_client, push_connected, local_id,
                   ID_VT2TIGER, contracts, attempts, host, last,
                   TIGER_AVAILABLE, issued, announced, subscribed_symbols,
                   quoted,
                   account, polled, caller>>

\* on_order_change, on the SDK's thread: one write_log
on_order_change ==
    /\ push_connected
    /\ Len(pushes) < MaxPushes
    /\ pushes' = Append(pushes, "order")
    /\ UNCHANGED <<active, queue, tasks_put, thread, query_thread, quote_client,
                   trade_client, push_client, push_connected, local_id,
                   ID_VT2TIGER, ID_TIGER2VT, contracts, attempts, host, last,
                   TIGER_AVAILABLE, issued, announced, subscribed_symbols,
                   quoted,
                   account, polled, caller>>

\* on_quote_change, on the SDK's thread: one write_log
on_quote_change ==
    /\ push_connected
    /\ Len(pushes) < MaxPushes
    /\ pushes' = Append(pushes, "quote")
    /\ UNCHANGED <<active, queue, tasks_put, thread, query_thread, quote_client,
                   trade_client, push_client, push_connected, local_id,
                   ID_VT2TIGER, ID_TIGER2VT, contracts, attempts, host, last,
                   TIGER_AVAILABLE, issued, announced, subscribed_symbols,
                   quoted,
                   account, polled, caller>>

\* on_asset_change, on the SDK's thread
on_asset_change ==
    /\ push_connected
    /\ Len(pushes) < MaxPushes
    /\ pushes' = Append(pushes, "asset")
    /\ add_task(queue, <<"query_account">>)
    /\ UNCHANGED <<active, thread, query_thread, quote_client, trade_client,
                   push_client, push_connected, local_id, ID_VT2TIGER,
                   ID_TIGER2VT, contracts, attempts, host, last,
                   TIGER_AVAILABLE, issued, announced, subscribed_symbols,
                   quoted,
                   account, polled, caller>>

\* on_position_change, on the SDK's thread
on_position_change ==
    /\ push_connected
    /\ Len(pushes) < MaxPushes
    /\ pushes' = Append(pushes, "position")
    /\ add_task(queue, <<"query_position">>)
    /\ UNCHANGED <<active, thread, query_thread, quote_client, trade_client,
                   push_client, push_connected, local_id, ID_VT2TIGER,
                   ID_TIGER2VT, contracts, attempts, host, last,
                   TIGER_AVAILABLE, issued, announced, subscribed_symbols,
                   quoted,
                   account, polled, caller>>

Next ==
    \/ connect
    \/ close
    \/ close_join
    \/ \E w \in Threads : run(w)
    \/ on_push_connected
    \/ on_asset_change
    \/ on_position_change
    \/ on_quote_change
    \/ on_order_change

Spec == Init /\ [][Next]_vars

\* ------------------------------------------------------------ orders

\* vt_symbol = f"{symbol}.{exchange.value}"
VtSymbol(symbol, exchange) == <<symbol, ".", exchange>>

\* OrderData.vt_orderid = f"{gateway_name}.{orderid}"
VtOrderId(orderid) == <<gateway_name, ".">> \o orderid

\* ContractData(symbol=symbol, exchange=exchange, name=symbol,
\* product=Product.EQUITY, size=1, pricetick=0.01, gateway_name=...)
ContractData(symbol, exchange) ==
    [symbol |-> symbol, exchange |-> exchange, name |-> symbol,
     product |-> "EQUITY", size |-> 1, pricetick |-> "0.01",
     gateway_name |-> gateway_name]

\* variant: get_contract without its `if vt_symbol in self.contracts` test
get_contract_always_creates(symbol, exchange) ==
    LET key == VtSymbol(symbol, exchange) IN
    [cache |-> DictSet(contracts, key, ContractData(symbol, exchange)),
     created |-> TRUE,
     contract |-> ContractData(symbol, exchange),
     announced |-> DictSet(announced, key,
                           (IF key \in DOMAIN announced THEN announced[key] ELSE 0) + 1)]

\* get_contract: the cache after the call, whether it created (and announced
\* through on_contract and one write_log) a new descriptor, the descriptor it
\* returns, and the on_contract calls made so far
get_contract(symbol, exchange) ==
    LET key == VtSymbol(symbol, exchange) IN
    IF key \in DOMAIN contracts
    THEN [cache |-> contracts, created |-> FALSE, contract |-> contracts[key],
          announced |-> announced]
    ELSE [cache |-> DictSet(contracts, key, ContractData(symbol, exchange)),
          created |-> TRUE,
          contract |-> ContractData(symbol, exchange),
          announced |-> DictSet(announced, key, 1)]

\* variant: the counter is read but not advanced
get_new_local_id_no_increment == [counter |-> local_id, id |-> Str(local_id)]

\* get_new_local_id: `self.local_id += 1; return str(self.local_id)`
get_new_local_id == [counter |-> local_id + 1, id |-> Str(local_id + 1)]

\* variant: the success log raises inside the try block, so the except clause
\* runs after the Submitting event was emitted
PlaceOrder_log_raises(result, vt_orderid) ==
    [ret |-> EmptyStr,
     orders |-> IF result = "accept" THEN <<"SUBMITTING", "REJECTED">>
                ELSE <<"REJECTED">>,
     logs |-> 1, raised |-> FALSE]

\* variant: an exception of place_order is not caught
PlaceOrder_uncaught(result, vt_orderid) ==
    CASE result = "accept" ->
            [ret |-> vt_orderid, orders |-> <<"SUBMITTING">>, logs |-> 1,
             raised |-> FALSE]
      [] result = "reject" ->
            [ret |-> EmptyStr, orders |-> <<"REJECTED">>, logs |-> 1,
             raised |-> FALSE]
      [] result = "raise" ->
            [ret |-> EmptyStr, orders |-> << >>, logs |-> 0, raised |-> TRUE]

\* send_order from `result = self.trade_client.place_order(tiger_order)` on:
\* what is returned and emitted for each answer of the broker
PlaceOrder(result, vt_orderid) ==
    CASE result = "accept" ->
            [ret |-> vt_orderid, orders |-> <<"SUBMITTING">>, logs |-> 1,
             raised |-> FALSE]
      [] result = "reject" ->
            [ret |-> EmptyStr, orders |-> <<"REJECTED">>, logs |-> 1,
             raised |-> FALSE]
      [] result = "raise" ->
            [ret |-> EmptyStr, orders |-> <<"REJECTED">>, logs |-> 1,
             raised |-> FALSE]

PlaceResults == {"accept", "reject", "raise"}

\* send_order(req)
send_order(symbol, result) ==
    /\ IF ~trade_client
       THEN /\ last' = [NoCall EXCEPT !.op = "send_order", !.req = <<symbol>>,
                                      !.result = result, !.logs = 1]
            /\ UNCHANGED <<contracts, local_id, issued, announced>>
       ELSE /\ Len(issued) < MaxOrders
            /\ LET c == get_contract(symbol, NASDAQ)
                   n == get_new_local_id
                   o == PlaceOrder(result, VtOrderId(n.id))
               IN /\ contracts' = c.cache
                  /\ announced' = c.announced
                  /\ local_id' = n.counter
                  /\ issued' = Append(issued, n.id)
                  /\ last' = [op |-> "send_order", req |-> <<symbol>>,
                              result |-> result, connected |-> TRUE,
                              ret |-> o.ret, orders |-> o.orders,
                              logs |-> o.logs + (IF c.created THEN 1 ELSE 0),
                              calls |-> 1, raised |-> o.raised]
    /\ UNCHANGED <<active, queue, tasks_put, thread, query_thread, quote_client,
                   trade_client, push_client, push_connected, pushes,
                   ID_VT2TIGER, ID_TIGER2VT, attempts, host,
                   TIGER_AVAILABLE, subscribed_symbols, quoted,
                   account, polled, caller>>

\* the host threads between their get_contract call and the return of
\* get_new_local_id
Allocating == {h \in Callers : caller[h].pc \in {"load", "store", "return"}}

\* send_order on host thread h, up to the call of get_new_local_id
send_order_enter(h, symbol) ==
    /\ caller[h].pc = "out"
    /\ IF ~trade_client
       THEN /\ last' = [NoCall EXCEPT !.op = "send_order", !.req = <<symbol>>,
                                      !.logs = 1]
            /\ UNCHANGED <<contracts, announced, caller>>
       ELSE /\ Len(issued) + Cardinality(Allocating) < MaxOrders
            /\ LET c == get_contract(symbol, NASDAQ)
               IN /\ contracts' = c.cache
                  /\ announced' = c.announced
            /\ caller' = [caller EXCEPT ![h] =
                            [NoCaller EXCEPT
                               !.pc = "load",
                               !.symbol = symbol,
                               !.logs = IF get_contract(symbol, NASDAQ).created
                                        THEN 1 ELSE 0]]
            /\ UNCHANGED last
    /\ UNCHANGED <<active, queue, tasks_put, thread, query_thread, quote_client,
                   trade_client, push_client, push_connected, pushes, local_id,
                   ID_VT2TIGER, ID_TIGER2VT, attempts, host, TIGER_AVAILABLE,
                   issued, subscribed_symbols, quoted, account, polled>>

\* get_new_local_id on host thread h: `self.local_id += 1` reads the counter
get_new_local_id_load(h) ==
    /\ caller[h].pc = "load"
    /\ caller' = [caller EXCEPT ![h].pc = "store", ![h].read = local_id]
    /\ UNCHANGED <<active, queue, tasks_put, thread, query_thread, quote_client,
                   trade_client, push_client, push_connected, pushes, local_id,
                   ID_VT2TIGER, ID_TIGER2VT, contracts, attempts, host, last,
                   TIGER_AVAILABLE, issued, announced, subscribed_symbols,
                   quoted, account, polled>>

\* get_new_local_id on host thread h: `self.local_id += 1` writes the sum
get_new_local_id_store(h) ==
    /\ caller[h].pc = "store"
    /\ local_id' = caller[h].read + 1
    /\ caller' = [caller EXCEPT ![h].pc = "return"]
    /\ UNCHANGED <<active, queue, tasks_put, thread, query_thread, quote_client,
                   trade_client, push_client, push_connected, pushes,
                   ID_VT2TIGER, ID_TIGER2VT, contracts, attempts, host, last,
                   TIGER_AVAILABLE, issued, announced, subscribed_symbols,
                   quoted, account, polled>>

\* get_new_local_id on host thread h: `return str(self.local_id)`
get_new_local_id_return(h) ==
    /\ caller[h].pc = "return"
    /\ caller' = [caller EXCEPT ![h].pc = "place", ![h].id = Str(local_id)]
    /\ issued' = Append(issued, Str(local_id))
    /\ UNCHANGED <<active, queue, tasks_put, thread, query_thread, quote_client,
                   trade_client, push_client, push_connected, pushes, local_id,
                   ID_VT2TIGER, ID_TIGER2VT, contracts, attempts, host, last,
                   TIGER_AVAILABLE, announced, subscribed_symbols, quoted,
                   account, polled>>

\* send_order on host thread h, from create_order_data to its return
send_order_place(h, result) ==
    /\ caller[h].pc = "place"
    /\ LET o == PlaceOrder(result, VtOrderId(caller[h].id))
       IN last' = [op |-> "send_order", req |-> <<caller[h].symbol>>,
                   result |-> result, connected |-> TRUE,
                   ret |-> o.ret, orders |-> o.orders,
                   logs |-> o.logs + caller[h].logs,
                   calls |-> 1, raised |-> o.raised]
    /\ caller' = [caller EXCEPT ![h] = NoCaller]
    /\ UNCHANGED <<active, queue, tasks_put, thread, query_thread, quote_client,
                   trade_client, push_client, push_connected, pushes, local_id,
                   ID_VT2TIGER, ID_TIGER2VT, contracts, attempts, host,
                   TIGER_AVAILABLE, issued, announced, subscribed_symbols,
                   quoted, account, polled>>

CancelResults == {"ok", "fail", "raise"}

\* the order ids a CancelRequest may carry: every id issued so far and one
\* that was never issued
CancelIds == {Str(n) : n \in (LOCAL_ID_BASE + 1)..local_id} \cup {Str(UNKNOWN_ORDER)}

\* variant: the cancel call is made with the missing id
CancelLookup_calls_anyway(tiger_order_id, result) ==
    [orders |-> << >>, logs |-> 1, calls |-> 1, raised |-> (result = "raise")]

\* variant: an order that cannot be cancelled is reported as Rejected
CancelLookup_reports_order(tiger_order_id, result) ==
    IF tiger_order_id = None
    THEN [orders |-> <<"REJECTED">>, logs |-> 1, calls |-> 0, raised |-> FALSE]
    ELSE [orders |-> << >>, logs |-> 1, calls |-> 1, raised |-> FALSE]

\* cancel_order from `tiger_order_id = self.ID_VT2TIGER.get(req.orderid)` on
CancelLookup(tiger_order_id, result) ==
    IF tiger_order_id = None
    THEN [orders |-> << >>, logs |-> 1, calls |-> 0, raised |-> FALSE]
    ELSE [orders |-> << >>, logs |-> 1, calls |-> 1, raised |-> FALSE]

\* cancel_order(req)
cancel_order(orderid, result) ==
    /\ IF ~trade_client
       THEN last' = [NoCall EXCEPT !.op = "cancel_order", !.req = orderid,
                                   !.result = result, !.logs = 1]
       ELSE LET o == CancelLookup(DictGet(ID_VT2TIGER, orderid), result)
            IN last' = [op |-> "cancel_order", req |-> orderid,
                        result |-> result, connected |-> TRUE,
                        ret |-> EmptyStr, orders |-> o.orders, logs |-> o.logs,
                        calls |-> o.calls, raised |-> o.raised]
    /\ UNCHANGED <<active, queue, tasks_put, thread, query_thread, quote_client,
                   trade_client, push_client, push_connected, pushes, local_id,
                   ID_VT2TIGER, ID_TIGER2VT, contracts, attempts, host,
                   TIGER_AVAILABLE, issued, announced, subscribed_symbols,
                   quoted,
                   account, polled, caller>>

\* variant: the push subscription is attempted in every session state
PushActive_always == TRUE

\* subscribe: `if self.push_connected and self.push_client`
PushActive == push_connected /\ push_client # None

\* subscribe(req)
subscribe(symbol) ==
    /\ IF ~quote_client
       THEN /\ last' = [NoCall EXCEPT !.op = "subscribe", !.req = <<symbol>>,
                                      !.logs = 1]
            /\ UNCHANGED <<contracts, announced, subscribed_symbols, quoted>>
       ELSE LET c == get_contract(symbol, NASDAQ) IN
            /\ contracts' = c.cache
            /\ announced' = c.announced
            /\ subscribed_symbols' = subscribed_symbols \cup {symbol}
            /\ quoted' = IF PushActive THEN quoted \cup {symbol} ELSE quoted
            /\ last' = [NoCall EXCEPT
                          !.op = "subscribe", !.req = <<symbol>>,
                          !.connected = TRUE,
                          !.logs = 1 + (IF c.created THEN 1 ELSE 0),
                          !.calls = IF PushActive THEN 1 ELSE 0]
    /\ UNCHANGED <<active, queue, tasks_put, thread, query_thread, quote_client,
                   trade_client, push_client, push_connected, pushes, local_id,
                   ID_VT2TIGER, ID_TIGER2VT, attempts, host, TIGER_AVAILABLE,
                   issued,
                   account, polled, caller>>

\* the host connects once, then trades
connect_first == query_thread = 0 /\ connect

OrderNext ==
    \/ connect_first
    \/ \E s \in Settings : connect_aborts(s)
    \/ close
    \/ close_join
    \/ \E w \in Threads : run(w)
    \/ \E sym \in Symbols, r \in PlaceResults : send_order(sym, r)
    \/ \E oid \in CancelIds, r \in CancelResults : cancel_order(oid, r)

\* the host connects once, then subscribes and trades while the push
\* connection comes up
QuoteNext ==
    \/ connect_first
    \/ \E w \in Threads : run(w)
    \/ on_push_connected
    \/ \E sym \in Symbols : subscribe(sym)
    \/ \E sym \in Symbols, r \in PlaceResults : send_order(sym, r)

QuoteSpec == Init /\ [][QuoteNext]_vars

\* the host connects once, then calls send_order from two threads
RaceNext ==
    \/ connect_first
    \/ \E w \in Threads : run(w)
    \/ \E h \in Callers, sym \in Symbols : send_order_enter(h, sym)
    \/ \E h \in Callers : get_new_local_id_load(h)
    \/ \E h \in Callers : get_new_local_id_store(h)
    \/ \E h \in Callers : get_new_local_id_return(h)
    \/ \E h \in Callers, r \in PlaceResults : send_order_place(h, r)

RaceSpec == Init /\ [][RaceNext]_vars

OrderSpec == Init /\ [][OrderNext]_vars

\* the host connects once and closes; the worker and close's join are
\* scheduled fairly (the OS runs a runnable thread), but a task blocked in a
\* broker call that never returns is not runnable
CloseNext ==
    \/ connect_first
    \/ close
    \/ close_join
    \/ \E w \in Threads : run(w)

FairSpec ==
    /\ Init
    /\ [][CloseNext]_vars
    /\ WF_vars(close_join)
    /\ \A w \in Threads : WF_vars(run(w))

\* ------------------------------------------------------------ properties

InFlight(w) == thread[w].pc = "exec"

QueuedIds == {queue[i].id : i \in 1..Len(queue)}

\* C1: tasks run in enqueue order, one after the other: while a task is in
\* flight, every task enqueued before it has finished (it is neither queued
\* nor in flight on another thread).
C1_FifoExecution ==
    \A w \in Threads :
        InFlight(w) =>
            /\ \A i \in QueuedIds : i > thread[w].task.id
            /\ \A v \in Threads \ {w} :
                  InFlight(v) => thread[v].task.id > thread[w].task.id

\* C2: a raising task never ends the worker: a worker thread ends only at
\* the head of its loop, having read active = False (set by close alone), and
\* the step after a raising task takes it back to the head of the loop.
C2_WorkerSurvives ==
    [][\A w \in Threads :
          /\ (thread[w].pc # "dead" /\ thread'[w].pc = "dead")
                => (thread[w].pc = "loop" /\ ~active)
          /\ (InFlight(w) /\ thread[w].out = "raise" /\ ~InFlight(w)')
                => thread'[w].pc = "loop"]_vars

\* C2 witness: a worker whose last task raised is alive and about to fetch
\* the next queued task.
C2_Witness ==
    \E w \in Threads :
        /\ thread[w].pc = "get"
        /\ thread[w].out = "raise"
        /\ active
        /\ queue # << >>

\* C3 as claimed: when close has returned, every task that was queued when
\* close was called has been taken from the queue.
C3_DrainsBeforeExit ==
    host.pc = "closed" => \A i \in QueuedIds : i > host.mark

\* C3 as amended: when close has returned, the worker thread it joined has
\* ended (it is not in the middle of a task); the queue need not be empty.
C3_JoinedWorkerEnded ==
    host.pc = "closed" =>
        (query_thread # 0 => thread[query_thread].pc = "dead")

\* C3 witness: close has returned, the joined worker has ended, and tasks
\* queued before close was called are still in the queue.
C3_Witness ==
    /\ host.pc = "closed"
    /\ query_thread # 0
    /\ thread[query_thread].pc = "dead"
    /\ \E i \in QueuedIds : i <= host.mark

\* C4: close always returns: whenever close waits in join, it eventually
\* returns.
C4_CloseReturns == (host.pc = "join") ~> (host.pc = "closed")

Count(k) == Cardinality({i \in 1..Len(queue) : queue[i].fn = k})

Born == Threads \ Unborn

C5_OncePerConnect ==
    \A k \in ConnectTasks : attempts[k] + Count(k) = Cardinality(Born)

C5_Isolated ==
    \A w \in Threads :
        (thread[w].pc = "get" /\ InFlight(w)' /\ thread'[w].task.fn \in ConnectTasks) =>
            LET k == thread'[w].task.fn IN
            /\ k # "connect_quote" => UNCHANGED quote_client
            /\ k # "connect_trade" => UNCHANGED trade_client
            /\ k # "connect_push" => UNCHANGED push_client
            /\ quote_client => quote_client'
            /\ trade_client => trade_client'
            /\ \A v \in Threads : thread[v].pc # "dead" => thread'[v].pc # "dead"
            /\ SubSeq(queue', 1, Len(queue) - 1) = Tail(queue)

\* C5: each connect() with complete credentials puts exactly one
\* connect_quote, one connect_trade and one connect_push task in the queue,
\* each is run at most once, and a run of one of them, failing or not, changes
\* no other sub-connection, unsets no established quote or trade client, ends
\* no worker thread and leaves the tasks behind it queued.
C5_ConnectAttempts == []C5_OncePerConnect /\ [][C5_Isolated]_vars

\* C5 witness: after one connect, all three attempts have run once; the quote
\* attempt failed, the trade attempt succeeded after it, and the push attempt
\* failed after the trade client was established.
C5_Witness ==
    /\ Cardinality(Born) = 1
    /\ \A k \in ConnectTasks : attempts[k] = 1
    /\ ~quote_client
    /\ trade_client
    /\ push_client = "created"

Accepted == last.op = "send_order" /\ last.connected /\ last.result = "accept"

\* C6: a send_order on a trade connection that accepts returns a non-empty
\* order id and emits exactly one order event, with status Submitting.
C6_AcceptedOrder ==
    Accepted =>
        /\ last.ret # EmptyStr
        /\ last.orders = <<"SUBMITTING">>
        /\ ~last.raised

\* C6 witness: the first order was accepted and TIGER.1000001 returned.
C6_Witness ==
    /\ Accepted
    /\ last.ret = VtOrderId(Str(LOCAL_ID_BASE + 1))

\* C7: a send_order on a trade connection whose place_order raises or
\* returns a failure returns "", emits exactly one order event, with status
\* Rejected, and lets no exception escape.
C7_RejectedOrder ==
    (last.op = "send_order" /\ last.connected /\ last.result \in {"reject", "raise"}) =>
        /\ last.ret = EmptyStr
        /\ last.orders = <<"REJECTED">>
        /\ ~last.raised

\* C7 witness: place_order raised during a send_order on a trade connection.
C7_Witness ==
    /\ last.op = "send_order"
    /\ last.connected
    /\ last.result = "raise"
    /\ local_id > LOCAL_ID_BASE

\* the local id inside a returned vt_orderid
LocalIdOf(vt_orderid) == SubSeq(vt_orderid, 3, Len(vt_orderid))

\* C8: after an accepted send_order the registry binds the local id to a
\* broker id, with the inverse entry in the broker-to-local map.
C8_RegistryBinds ==
    Accepted =>
        /\ LocalIdOf(last.ret) \in DOMAIN ID_VT2TIGER
        /\ \E b \in DOMAIN ID_TIGER2VT :
              /\ ID_VT2TIGER[LocalIdOf(last.ret)] = b
              /\ ID_TIGER2VT[b] = LocalIdOf(last.ret)

\* C9: cancel_order for an order id the registry does not hold makes no
\* broker call, writes exactly one log, emits no order event and raises
\* nothing.
C9_CancelUnknown ==
    (last.op = "cancel_order" /\ last.req \notin DOMAIN ID_VT2TIGER) =>
        /\ last.calls = 0
        /\ last.logs = 1
        /\ last.orders = << >>
        /\ ~last.raised

\* C9 witness: cancel_order of 999999 on an established trade connection.
C9_Witness ==
    /\ last.op = "cancel_order"
    /\ last.connected
    /\ last.req = Str(UNKNOWN_ORDER)
    /\ last.req \notin DOMAIN ID_VT2TIGER

\* C10: a cancel_order call emits no order event and leaves the registry,
\* the local id counter and the contract cache as they were.
C10_CancelFrame ==
    [][(last' # last /\ last'.op = "cancel_order") =>
          /\ last'.orders = << >>
          /\ UNCHANGED <<ID_VT2TIGER, ID_TIGER2VT, local_id, contracts>>]_vars

\* C10 witness: cancel_order of an id that send_order issued, on an
\* established trade connection with a contract cached.
C10_Witness ==
    /\ last.op = "cancel_order"
    /\ last.connected
    /\ last.req = Str(LOCAL_ID_BASE + 1)
    /\ DOMAIN contracts # {}

\* C11: the local ids issued so far are all above the base the counter
\* starts from, strictly increasing in the order of issue, and pairwise
\* distinct.
C11_LocalIdsIncrease ==
    \A i \in 1..Len(issued) :
        /\ issued[i][1] > LOCAL_ID_BASE
        /\ \A j \in (i + 1)..Len(issued) :
              /\ issued[i][1] < issued[j][1]
              /\ issued[i] # issued[j]

\* C11 witness: send_order allocated MaxOrders local ids.
C11_Witness ==
    /\ Len(issued) = MaxOrders
    /\ last.op = "send_order"
    /\ LocalIdOf(last.ret) = issued[MaxOrders]

\* C12: a get_contract call for a cached key returns the cached descriptor,
\* emits no contract event and leaves the cache alone; no step replaces or
\* drops a cached descriptor; and no key has had more than one contract
\* event.
C12_CacheIdempotent ==
    /\ [](\A sym \in Symbols :
            LET c == get_contract(sym, NASDAQ)
                key == VtSymbol(sym, NASDAQ) IN
            key \in DOMAIN contracts =>
                /\ c.contract = contracts[key]
                /\ ~c.created
                /\ c.cache = contracts)
    /\ [](DOMAIN announced = DOMAIN contracts
           /\ \A key \in DOMAIN announced : announced[key] = 1)
    /\ [][\A key \in DOMAIN contracts :
              key \in DOMAIN contracts' /\ contracts'[key] = contracts[key]]_vars

\* C12 witness: subscribe found the descriptor that an earlier send_order
\* or subscribe cached, while another key is cached too.
C12_Witness ==
    /\ last.op = "subscribe"
    /\ last.connected
    /\ last.logs = 1
    /\ VtSymbol(last.req[1], NASDAQ) \in DOMAIN contracts
    /\ Cardinality(DOMAIN contracts) = 2
    /\ Len(issued) > 0

\* the broker's order statuses
BrokerStatuses ==
    {"PENDING_NEW", "NEW", "PARTIALLY_FILLED", "FILLED", "PENDING_CANCEL",
     "CANCELLED", "REJECTED", "EXPIRED"}

\* STATUS_TIGER2VT: filled in when tigeropen was imported, {} otherwise
STATUS_TIGER2VT ==
    IF TIGER_AVAILABLE
    THEN [s \in BrokerStatuses |->
            CASE s = "PENDING_NEW" -> "SUBMITTING"
              [] s = "NEW" -> "NOTTRADED"
              [] s = "PARTIALLY_FILLED" -> "PARTTRADED"
              [] s = "FILLED" -> "ALLTRADED"
              [] s = "CANCELLED" -> "CANCELLED"
              [] s = "PENDING_CANCEL" -> "CANCELLING"
              [] s = "REJECTED" -> "REJECTED"
              [] s = "EXPIRED" -> "CANCELLED"]
    ELSE EmptyMap

\* the translation of a broker status: the table's entry, Submitting for a
\* status the table does not hold
Translate(s) ==
    IF s \in DOMAIN STATUS_TIGER2VT THEN STATUS_TIGER2VT[s] ELSE "SUBMITTING"

\* C13: every broker status translates to its documented platform status
\* and an unrecognized status translates to Submitting, whether or not the
\* broker SDK was imported.
C13_StatusTranslation ==
    /\ Translate("PENDING_NEW") = "SUBMITTING"
    /\ Translate("NEW") = "NOTTRADED"
    /\ Translate("PARTIALLY_FILLED") = "PARTTRADED"
    /\ Translate("FILLED") = "ALLTRADED"
    /\ Translate("PENDING_CANCEL") = "CANCELLING"
    /\ Translate("CANCELLED") = "CANCELLED"
    /\ Translate("REJECTED") = "REJECTED"
    /\ Translate("EXPIRED") = "CANCELLED"
    /\ Translate("HELD") = "SUBMITTING"

\* the session is connected and not closed, and no worker is blocked in a
\* broker call
Polling ==
    /\ active
    /\ host.pc = "idle"
    /\ trade_client
    /\ \A w \in Threads : thread[w].out # "hang"

\* a worker is running the task fn
Executing(fn) == \E w \in Threads : InFlight(w) /\ thread[w].task.fn = fn

\* C14: in an execution where no push notification arrives, if the session
\* stays connected from some point on, query_account and query_position are
\* executed again and again.
C14_HeartbeatPolls ==
    /\ <>[]Polling => []<>Executing("query_account")
    /\ <>[]Polling => []<>Executing("query_position")

\* a step of subscribe
SubscribeStep == last' # last /\ last'.op = "subscribe"

\* C15 as stated: every subscribe call adds the symbol to the subscription
\* set, whatever the session state, and makes no push subscribe call while
\* no push connection is active.
C15_AlwaysRecords ==
    [][SubscribeStep =>
          /\ last'.req[1] \in subscribed_symbols'
          /\ ~(push_connected /\ push_client # None) =>
                (last'.calls = 0 /\ quoted' = quoted)]_vars

\* C15 amended: a subscribe call adds the symbol to the subscription set
\* when the quote client exists; without a quote client it writes one log
\* and records nothing; while no push connection is active it makes no
\* push subscribe call.
C15_RecordsWhenQuoteConnected ==
    [][SubscribeStep =>
          /\ quote_client => last'.req[1] \in subscribed_symbols'
          /\ ~quote_client =>
                /\ subscribed_symbols' = subscribed_symbols
                /\ last'.logs = 1
                /\ last'.calls = 0
          /\ ~(push_connected /\ push_client # None) =>
                (last'.calls = 0 /\ quoted' = quoted)]_vars

\* C15 witness: subscribe recorded a symbol on a quote connection while the
\* push connection was not up, and made no push subscribe call.
C15_Witness ==
    /\ last.op = "subscribe"
    /\ last.connected
    /\ last.calls = 0
    /\ ~push_connected
    /\ last.req[1] \in subscribed_symbols
    /\ last.req[1] \notin quoted

\* C16: once the push-connected callback has run, every symbol of the
\* subscription set has been passed to the push client's subscribe_quote,
\* whatever the order of the subscribe calls and the callback.
C16_NoSubscriptionLost ==
    push_connected => subscribed_symbols \subseteq quoted

\* a step of one of the four push callbacks
PushStep == pushes' # pushes

\* the task a push notification of the given kind has enqueued
Enqueued(kind) ==
    CASE kind = "asset" -> <<"query_account">>
      [] kind = "position" -> <<"query_position">>
      [] OTHER -> << >>

\* C17: a push callback changes nothing of the gateway but the worker's
\* queue, to which an asset change appends query_account, a position change
\* appends query_position, and a quote or order change appends nothing.
C17_CallbacksOnlyEnqueue ==
    [][PushStep =>
          /\ queue' = PutAll(queue, tasks_put, Enqueued(pushes'[Len(pushes')]))
          /\ UNCHANGED <<active, thread, query_thread, quote_client,
                         trade_client, push_client, push_connected, local_id,
                         ID_VT2TIGER, ID_TIGER2VT, contracts,
                         subscribed_symbols, quoted>>]_vars

\* C17 witness: an asset change arrived while a worker was running a task,
\* and its query_account is waiting in the queue.
C17_Witness ==
    /\ pushes = <<"asset">>
    /\ \E w \in Threads : InFlight(w)
    /\ \E i \in 1..Len(queue) :
          queue[i].fn = "query_account" /\ queue[i].id = tasks_put

\* a worker is inside query_account or query_position with a trade client,
\* that is, in trade_client.get_assets or get_positions
WorkerPolling ==
    \E w \in Threads :
        /\ InFlight(w)
        /\ thread[w].task.fn \in {"query_account", "query_position"}
        /\ trade_client

\* a send_order or cancel_order step on the host's thread that calls
\* trade_client.place_order or trade_client.cancel_order
HostBrokerCall ==
    /\ last' # last
    /\ last'.op \in {"send_order", "cancel_order"}
    /\ last'.calls > 0

\* C18: broker calls are serialized: the host never calls place_order or
\* cancel_order while a worker is inside get_assets or get_positions.
C18_BrokerCallsSerialized ==
    [][HostBrokerCall => ~WorkerPolling]_vars

\* a step of connect whose setting lacks a credential or holds an empty one
IncompleteConnectStep ==
    /\ last' # last
    /\ last'.op = "connect"
    /\ last'.req \in {<<"empty">>, <<"missing">>}

\* C19: connect with a credential missing or empty raises nothing, writes a
\* log, and starts no thread, enqueues no task, creates no client and does
\* not set the active flag.
C19_IncompleteConnectAborts ==
    [][IncompleteConnectStep =>
          /\ ~last'.raised
          /\ last'.logs > 0
          /\ UNCHANGED <<active, thread, query_thread, queue, tasks_put,
                         quote_client, trade_client, push_client>>]_vars

\* a send_order, cancel_order or subscribe step made after close() returned
\* and before any further connect()
CallAfterClose ==
    /\ host.pc = "closed"
    /\ last' # last
    /\ last'.op \in {"send_order", "cancel_order", "subscribe"}

\* C20: after close() has returned the sub-connections are gone: a later
\* send_order, cancel_order or subscribe makes no broker call, and
\* send_order returns the empty id.
C20_CloseTearsDown ==
    [][CallAfterClose =>
          /\ last'.calls = 0
          /\ last'.op = "send_order" => last'.ret = EmptyStr]_vars

\* a query_account run whose get_assets call raised
FailedQuery == polled' # polled /\ polled'.result = "raise"

\* C21: a query_account run whose broker call raises emits no account
\* event and leaves the last-known account snapshot as it was.
C21_FailedQueryKeepsSnapshot ==
    [][FailedQuery => (polled'.events = 0 /\ account' = account)]_vars

\* the worker threads that are started and have not ended
AliveWorkers == {w \in Threads : IsAlive(w)}

\* C22: whatever connect and close calls were made, at most one worker
\* thread is alive and consuming the task queue.
C22_SingleWorker == Cardinality(AliveWorkers) <= 1

\* C23: send_order calls running at the same time on different host
\* threads never obtain the same local id: the ids returned by
\* get_new_local_id are pairwise distinct.
C23_ConcurrentIdsDistinct ==
    \A i \in 1..Len(issued) : \A j \in 1..Len(issued) :
        i # j => issued[i] # issued[j]

\* a task fn is waiting in the queue
Waiting(fn) == \E i \in 1..Len(queue) : queue[i].fn = fn

\* no task blocks for ever and close() is not called
TasksEndNoClose ==
    /\ host.pc = "idle"
    /\ \A w \in Threads : thread[w].out # "hang"

====
